---- MODULE Spec2Model ----
(***************************************************************************)
(* Model of wf/__init__.py (latch-verified/trim_galore): the task          *)
(* trim_reads_task builds the trim_galore command line from its            *)
(* parameters, runs it with subprocess.run, resolves the destination and   *)
(* returns a LatchDir.                                                     *)
(*                                                                         *)
(* Representation.                                                         *)
(*   str            a TLA+ string (Len, SubSeq and \o act on it)           *)
(*   Optional[T]    a sequence of length <= 1: << >> is None, <<v>> is v   *)
(*   int            an integer                                             *)
(*   float          the number of hundredths, an integer (1 is 0.01,       *)
(*                  50 is 0.5); FloatStr renders it the way str() does     *)
(*   Enum member    the member's name; EnumValue gives its .value          *)
(***************************************************************************)
EXTENDS Integers, Sequences, FiniteSets, TLC

VARIABLES pc, params, _cmd, launches, returncode, latch_out_location, result

vars == <<pc, params, _cmd, launches, returncode, latch_out_location, result>>

(* Bounds of the model *)
MaxDeviations == 2
MaxReturnCode == 1

None == << >>

Some(v) == <<v>>

(* ---------------------------------------------------------------------- *)
(* Python conversions                                                      *)
(* ---------------------------------------------------------------------- *)

Digit(d) ==
    CASE d = 0 -> "0" [] d = 1 -> "1" [] d = 2 -> "2" [] d = 3 -> "3"
      [] d = 4 -> "4" [] d = 5 -> "5" [] d = 6 -> "6" [] d = 7 -> "7"
      [] d = 8 -> "8" [] d = 9 -> "9"

RECURSIVE NatStr(_)
NatStr(n) == IF n < 10 THEN Digit(n) ELSE NatStr(n \div 10) \o Digit(n % 10)

(* str(n) of an int *)
IntStr(n) == IF n < 0 THEN "-" \o NatStr(0 - n) ELSE NatStr(n)

(* str(x) of the float x = h / 100: the shortest decimal, at least one    *)
(* digit after the point                                                   *)
FloatStr(h) ==
    LET a == IF h < 0 THEN 0 - h ELSE h
        whole == a \div 100
        frac == a % 100
        digits == IF frac % 10 = 0
                  THEN Digit(frac \div 10)
                  ELSE Digit(frac \div 10) \o Digit(frac % 10)
    IN  (IF h < 0 THEN "-" ELSE "") \o NatStr(whole) \o "." \o digits

(* bool(x) of an Optional[str]: None and "" are falsy *)
StrTruthy(o) == o # None /\ o[1] # ""

(* bool(x) of an Optional[int] or Optional[float]: None and 0 are falsy *)
NumTruthy(o) == o # None /\ o[1] # 0

(* ---------------------------------------------------------------------- *)
(* Enums                                                                   *)
(* ---------------------------------------------------------------------- *)

BaseQualityEncoding == {"phred33", "phred64"}

AdapterSequence == {"auto", "illumina", "stranded_illumina", "nextera", "small_rna"}

(* member.value *)
EnumValue(m) ==
    CASE m = "phred33" -> "--phred33"
      [] m = "phred64" -> "--phred64"
      [] m = "auto" -> "auto"
      [] m = "illumina" -> "--illumina"
      [] m = "stranded_illumina" -> "--stranded_illumina"
      [] m = "nextera" -> "--nextera"
      [] m = "small_rna" -> "--small_rna"

(* ---------------------------------------------------------------------- *)
(* _fmt_dir and the destination                                            *)
(* ---------------------------------------------------------------------- *)

(* bucket_path[-1] == "/" *)
EndsWithSlash(s) == Len(s) > 0 /\ SubSeq(s, Len(s), Len(s)) = "/"

(* bucket_path.rstrip("/") in place of the test of the last character *)
RECURSIVE _fmt_dir_rstrip(_)
_fmt_dir_rstrip(bucket_path) ==
    IF EndsWithSlash(bucket_path)
    THEN _fmt_dir_rstrip(SubSeq(bucket_path, 1, Len(bucket_path) - 1))
    ELSE bucket_path

_fmt_dir(bucket_path) ==
    IF EndsWithSlash(bucket_path)
    THEN SubSeq(bucket_path, 1, Len(bucket_path) - 1)
    ELSE bucket_path

local_dir == "trim_galore_out"

DefaultLocation == "latch:///Trim Galore Output/"

(* lines 409-412: output_directory is Optional[LatchDir], modelled by its *)
(* remote_source                                                           *)
ResolveLocation(output_directory) ==
    IF output_directory # None
    THEN _fmt_dir(output_directory[1])
    ELSE DefaultLocation

(* LatchDir(path, remote_path) *)
LatchDir(path, remote_path) == [local_path |-> path, remote_path |-> remote_path]

(* ---------------------------------------------------------------------- *)
(* The command line, one operator per block of trim_reads_task             *)
(* ---------------------------------------------------------------------- *)

TrimGalore == "./TrimGalore-0.6.10/trim_galore"

cmd_io(p) ==
    <<TrimGalore, p.input_forward, p.input_reverse, "--paired", "--output_dir", local_dir>>

cmd_base_out(p) ==
    IF StrTruthy(p.base_out) THEN <<"--basename", p.base_out[1]>> ELSE << >>

(* the else branch dropped *)
cmd_gzip_only_when_set(p) ==
    IF p.gzip_output_files THEN <<"--gzip">> ELSE << >>

(* --dont_gzip appended outside the else *)
cmd_gzip_no_else(p) ==
    IF p.gzip_output_files THEN <<"--gzip", "--dont_gzip">> ELSE <<"--dont_gzip">>

cmd_gzip(p) ==
    IF p.gzip_output_files THEN <<"--gzip">> ELSE <<"--dont_gzip">>

cmd_retain_unpaired(p) ==
    IF p.retain_unpaired THEN <<"--retain_unpaired">> ELSE << >>

cmd_quality(p) ==
    << "--quality", IntStr(p.quality),
       EnumValue(p.base_quality_encoding),
       "--length", IntStr(p.length),
       "--length_1", IntStr(p.length_1),
       "--length_2", IntStr(p.length_2) >>

cmd_max_length(p) ==
    IF NumTruthy(p.max_length) THEN <<"--max_length", IntStr(p.max_length[1])>> ELSE << >>

cmd_max_n(p) ==
    IF NumTruthy(p.max_n) THEN <<"--max_n", FloatStr(p.max_n[1])>> ELSE << >>

cmd_trim_n(p) ==
    IF p.trim_n THEN <<"--trim-n">> ELSE << >>

(* the test for auto dropped *)
cmd_adapter_sequence_always(p) == <<EnumValue(p.adapter_sequence)>>

cmd_adapter_sequence(p) ==
    IF p.adapter_sequence # "auto" THEN <<EnumValue(p.adapter_sequence)>> ELSE << >>

cmd_error_rate(p) ==
    IF p.error_rate # 0 THEN <<"-e", FloatStr(p.error_rate)>> ELSE << >>

cmd_stringency(p) == <<"--stringency", IntStr(p.stringency)>>

cmd_adapter(p) ==
    IF StrTruthy(p.adapter) THEN <<"--adapter", p.adapter[1]>> ELSE << >>

cmd_adapter2(p) ==
    IF StrTruthy(p.adapter2) THEN <<"--adapter2", p.adapter2[1]>> ELSE << >>

cmd_consider_already_trimmed(p) ==
    IF NumTruthy(p.consider_already_trimmed)
    THEN <<"--consider_already_trimmed", IntStr(p.consider_already_trimmed[1])>>
    ELSE << >>

(* the test inverted *)
cmd_fastqc_inverted(p) ==
    IF p.fastqc THEN << >> ELSE <<"--fastqc">>

cmd_fastqc(p) ==
    IF p.fastqc THEN <<"--fastqc">> ELSE << >>

cmd_fastqc_args(p) ==
    IF StrTruthy(p.fastqc_args)
    THEN <<"--fastqc_args", "\"" \o p.fastqc_args[1] \o "\"">>
    ELSE << >>

cmd_report_file(p) ==
    IF ~p.report_file THEN <<"--no_report_file">> ELSE << >>

cmd_hardtrim5(p) ==
    IF NumTruthy(p.hardtrim5) THEN <<"--hardtrim5", IntStr(p.hardtrim5[1])>> ELSE << >>

cmd_hardtrim3(p) ==
    IF NumTruthy(p.hardtrim3) THEN <<"--hardtrim3", IntStr(p.hardtrim3[1])>> ELSE << >>

(* "is not None" in place of truthiness *)
cmd_clip_R1_not_none(p) ==
    IF p.clip_R1 # None THEN <<"--clip_R1", IntStr(p.clip_R1[1])>> ELSE << >>

cmd_clip_R1(p) ==
    IF NumTruthy(p.clip_R1) THEN <<"--clip_R1", IntStr(p.clip_R1[1])>> ELSE << >>

cmd_clip_R2(p) ==
    IF NumTruthy(p.clip_R2) THEN <<"--clip_R2", IntStr(p.clip_R2[1])>> ELSE << >>

cmd_polyA(p) ==
    IF p.polyA THEN <<"--polyA">> ELSE << >>

cmd_implicon(p) ==
    IF p.implicon THEN <<"--implicon">> ELSE << >>

cmd_three_prime_clip_R1(p) ==
    IF NumTruthy(p.three_prime_clip_R1)
    THEN <<"--three_prime_clip_R1", IntStr(p.three_prime_clip_R1[1])>>
    ELSE << >>

cmd_three_prime_clip_R2(p) ==
    IF NumTruthy(p.three_prime_clip_R2)
    THEN <<"--three_prime_clip_R2", IntStr(p.three_prime_clip_R2[1])>>
    ELSE << >>

(* the misc block with --polyA and --implicon emitted before the clips *)
cmd_misc_flags_first(p) ==
    cmd_polyA(p) \o cmd_implicon(p)
    \o cmd_hardtrim5(p) \o cmd_hardtrim3(p) \o cmd_clip_R1(p) \o cmd_clip_R2(p)
    \o cmd_three_prime_clip_R1(p) \o cmd_three_prime_clip_R2(p)

cmd_misc(p) ==
    cmd_hardtrim5(p) \o cmd_hardtrim3(p) \o cmd_clip_R1(p) \o cmd_clip_R2(p)
    \o cmd_polyA(p) \o cmd_implicon(p)
    \o cmd_three_prime_clip_R1(p) \o cmd_three_prime_clip_R2(p)

(* the value of _cmd when subprocess.run is reached *)
BuildCmd(p) ==
    cmd_io(p) \o cmd_base_out(p) \o cmd_gzip(p) \o cmd_retain_unpaired(p)
    \o cmd_quality(p)
    \o cmd_max_length(p) \o cmd_max_n(p) \o cmd_trim_n(p)
    \o cmd_adapter_sequence(p) \o cmd_error_rate(p) \o cmd_stringency(p)
    \o cmd_adapter(p) \o cmd_adapter2(p) \o cmd_consider_already_trimmed(p)
    \o cmd_fastqc(p) \o cmd_fastqc_args(p) \o cmd_report_file(p)
    \o cmd_misc(p)

(* ---------------------------------------------------------------------- *)
(* Parameter sets                                                          *)
(* ---------------------------------------------------------------------- *)

(* the declared defaults of trim_reads_task; every Optional is None; the  *)
(* two required inputs are local paths                                     *)
Defaults ==
    [ input_forward |-> "/root/SRR_1.fq",
      input_reverse |-> "/root/SRR_2.fq",
      base_out |-> None,
      output_directory |-> None,
      fastqc_args |-> None,
      adapter |-> None,
      adapter2 |-> None,
      consider_already_trimmed |-> None,
      max_length |-> None,
      max_n |-> None,
      clip_R1 |-> None,
      clip_R2 |-> None,
      three_prime_clip_R1 |-> None,
      three_prime_clip_R2 |-> None,
      hardtrim5 |-> None,
      hardtrim3 |-> None,
      quality |-> 20,
      base_quality_encoding |-> "phred33",
      fastqc |-> TRUE,
      adapter_sequence |-> "auto",
      stringency |-> 1,
      error_rate |-> 1,
      gzip_output_files |-> FALSE,
      length |-> 20,
      trim_n |-> FALSE,
      report_file |-> TRUE,
      polyA |-> FALSE,
      implicon |-> FALSE,
      retain_unpaired |-> TRUE,
      length_1 |-> 35,
      length_2 |-> 35 ]

(* the values the caller may pass in place of a default, each a pair of  *)
(* the parameter's name and the value                                      *)
Alternatives ==
    << <<"input_forward", "/root/SRR_2.fq">>,
       <<"input_reverse", "/root/SRR_1.fq">>,
       <<"base_out", Some("")>>,
       <<"base_out", Some("sample")>>,
       <<"base_out", Some("--gzip")>>,
       <<"base_out", Some("auto")>>,
       <<"output_directory", Some("s3://bucket/path/")>>,
       <<"output_directory", Some("s3://bucket/path")>>,
       <<"output_directory", Some("s3://bucket/path//")>>,
       <<"fastqc_args", Some("")>>,
       <<"fastqc_args", Some("--nogroup")>>,
       <<"adapter", Some("")>>,
       <<"adapter", Some("AGATCGGAAGAGC")>>,
       <<"adapter", Some("--nextera")>>,
       <<"adapter2", Some("AGATCGGAAGAGC")>>,
       <<"adapter2", Some("--clip_R1")>>,
       <<"consider_already_trimmed", Some(0)>>,
       <<"consider_already_trimmed", Some(12)>>,
       <<"max_length", Some(0)>>,
       <<"max_length", Some(12)>>,
       <<"max_n", Some(0)>>,
       <<"max_n", Some(50)>>,
       <<"max_n", Some(300)>>,
       <<"clip_R1", Some(0)>>,
       <<"clip_R1", Some(12)>>,
       <<"clip_R2", Some(0)>>,
       <<"clip_R2", Some(12)>>,
       <<"three_prime_clip_R1", Some(0)>>,
       <<"three_prime_clip_R1", Some(12)>>,
       <<"three_prime_clip_R2", Some(0)>>,
       <<"three_prime_clip_R2", Some(12)>>,
       <<"three_prime_clip_R2", Some(-1)>>,
       <<"hardtrim5", Some(0)>>,
       <<"hardtrim5", Some(12)>>,
       <<"hardtrim3", Some(0)>>,
       <<"hardtrim3", Some(12)>>,
       <<"quality", 0>>,
       <<"base_quality_encoding", "phred64">>,
       <<"fastqc", FALSE>>,
       <<"adapter_sequence", "illumina">>,
       <<"adapter_sequence", "stranded_illumina">>,
       <<"adapter_sequence", "nextera">>,
       <<"adapter_sequence", "small_rna">>,
       <<"stringency", 3>>,
       <<"error_rate", 0>>,
       <<"error_rate", 5>>,
       <<"gzip_output_files", TRUE>>,
       <<"length", 0>>,
       <<"trim_n", TRUE>>,
       <<"report_file", FALSE>>,
       <<"polyA", TRUE>>,
       <<"implicon", TRUE>>,
       <<"retain_unpaired", FALSE>>,
       <<"length_1", 7>>,
       <<"length_2", 100>> >>

(* p with the alternatives picked by choice[i], choice[i+1], ... passed;  *)
(* a pick of 0 passes nothing                                             *)
RECURSIVE Deviate(_, _, _)
Deviate(p, choice, i) ==
    IF i > Len(choice) THEN p
    ELSE Deviate(IF choice[i] = 0 THEN p
                 ELSE [p EXCEPT ![Alternatives[choice[i]][1]] =
                                    Alternatives[choice[i]][2]],
                 choice, i + 1)

(* the picks of at most MaxDeviations alternatives, in increasing order *)
Choices ==
    {choice \in [1 .. MaxDeviations -> 0 .. Len(Alternatives)] :
        \A i \in 1 .. MaxDeviations - 1 : choice[i] = 0 \/ choice[i] < choice[i + 1]}

ReturnCodes == 0 .. MaxReturnCode

(* ---------------------------------------------------------------------- *)
(* trim_reads_task as a state machine                                      *)
(* ---------------------------------------------------------------------- *)

Init ==
    /\ pc = "Idle"
    /\ \E choice \in Choices : params = Deviate(Defaults, choice, 1)
    /\ _cmd = << >>
    /\ launches = 0
    /\ returncode = None
    /\ latch_out_location = None
    /\ result = None

(* the task is called: the body starts building the command line *)
Call ==
    /\ pc = "Idle"
    /\ pc' = "BuildingArguments"
    /\ UNCHANGED <<params, _cmd, launches, returncode, latch_out_location, result>>

(* lines 310-405 *)
BuildArguments ==
    /\ pc = "BuildingArguments"
    /\ _cmd = << >>
    /\ _cmd' = BuildCmd(params)
    /\ UNCHANGED <<pc, params, launches, returncode, latch_out_location, result>>

(* subprocess.run starts the child process *)
LaunchProcess ==
    /\ pc = "BuildingArguments"
    /\ _cmd # << >>
    /\ pc' = "ProcessRunning"
    /\ launches' = launches + 1
    /\ UNCHANGED <<params, _cmd, returncode, latch_out_location, result>>

(* the launch wrapped in try/except with the exception swallowed: the    *)
(* body goes on to resolve the destination                                 *)
LaunchRaises_swallowed ==
    /\ pc = "BuildingArguments"
    /\ _cmd # << >>
    /\ pc' = "ResolvingDestination"
    /\ launches' = launches + 1
    /\ UNCHANGED <<params, _cmd, returncode, latch_out_location, result>>

(* subprocess.run raises instead (the executable is missing, ...): the    *)
(* exception leaves trim_reads_task                                        *)
LaunchRaises ==
    /\ pc = "BuildingArguments"
    /\ _cmd # << >>
    /\ pc' = "Raised"
    /\ launches' = launches + 1
    /\ UNCHANGED <<params, _cmd, returncode, latch_out_location, result>>

(* the launch wrapped in a loop that runs the command again on a non-zero *)
(* exit status                                                             *)
AfterReturn_retry(code) == IF code # 0 THEN "BuildingArguments" ELSE "ResolvingDestination"

(* subprocess.run(..., check=True) would raise CalledProcessError on a    *)
(* non-zero exit status                                                    *)
AfterReturn_check(code) == IF code # 0 THEN "Raised" ELSE "ResolvingDestination"

(* subprocess.run(_cmd, stdout=subprocess.PIPE): check is not passed, the *)
(* CompletedProcess is dropped                                             *)
AfterReturn(code) == "ResolvingDestination"

(* the child process exits with some status and subprocess.run returns *)
ProcessReturns ==
    /\ pc = "ProcessRunning"
    /\ \E code \in ReturnCodes :
          /\ returncode' = Some(code)
          /\ pc' = AfterReturn(code)
    /\ UNCHANGED <<params, _cmd, launches, latch_out_location, result>>

(* lines 409-414 *)
ResolveDestination ==
    /\ pc = "ResolvingDestination"
    /\ latch_out_location' = Some(ResolveLocation(params.output_directory))
    /\ result' = Some(LatchDir(local_dir, ResolveLocation(params.output_directory)))
    /\ pc' = "Done"
    /\ UNCHANGED <<params, _cmd, launches, returncode>>

Next ==
    \/ Call
    \/ BuildArguments
    \/ LaunchProcess
    \/ LaunchRaises
    \/ ProcessReturns
    \/ ResolveDestination

Spec == Init /\ [][Next]_vars

TypeOK ==
    /\ pc \in {"Idle", "BuildingArguments", "ProcessRunning", "ResolvingDestination",
               "Done", "Raised"}
    /\ launches \in 0 .. 1
    /\ Len(returncode) <= 1
    /\ Len(result) <= 1

(* ---------------------------------------------------------------------- *)
(* Vocabulary of the properties                                            *)
(* ---------------------------------------------------------------------- *)

(* the command line has been built *)
Built == _cmd # << >>

(* the number of positions of s that hold the token t *)
Count(s, t) == Cardinality({i \in DOMAIN s : s[i] = t})

(* flag is at some position of s, immediately followed by value *)
HasPair(s, flag, value) ==
    \E i \in 1 .. Len(s) - 1 : s[i] = flag /\ s[i + 1] = value

(* s without the first occurrence of flag and the token after it *)
DropPair(s, flag) ==
    LET at == {i \in DOMAIN s : s[i] = flag}
    IN  IF at = {} THEN s
        ELSE LET i == CHOOSE j \in at : \A k \in at : j <= k
             IN  SubSeq(s, 1, i - 1) \o SubSeq(s, i + 2, Len(s))

(* the text the caller supplies that is copied into the command line as   *)
(* it is: the two paths and the values of base_out, adapter and adapter2   *)
FreeText(p) ==
    {p.input_forward, p.input_reverse}
    \cup {p.base_out[i] : i \in DOMAIN p.base_out}
    \cup {p.adapter[i] : i \in DOMAIN p.adapter}
    \cup {p.adapter2[i] : i \in DOMAIN p.adapter2}

(* only the two required inputs are set *)
OnlyRequiredSet(p) ==
    [p EXCEPT !.input_forward = Defaults.input_forward,
              !.input_reverse = Defaults.input_reverse] = Defaults

(* ---------------------------------------------------------------------- *)
(* C1                                                                      *)
(* ---------------------------------------------------------------------- *)

(* C1, as stated: with only the two required inputs set, the argument     *)
(* list is [tool, fwd, rev, --paired, --output_dir, trim_galore_out,      *)
(* --dont_gzip, --retain_unpaired, --quality, 20, --phred33, --length,    *)
(* 20, --length_1, 35, --length_2, 35, --stringency, 1] and nothing else. *)
C1_AsStated ==
    (Built /\ OnlyRequiredSet(params)) =>
        _cmd = << "./TrimGalore-0.6.10/trim_galore",
                  params.input_forward, params.input_reverse,
                  "--paired", "--output_dir", "trim_galore_out",
                  "--dont_gzip", "--retain_unpaired",
                  "--quality", "20", "--phred33",
                  "--length", "20", "--length_1", "35", "--length_2", "35",
                  "--stringency", "1" >>

(* C1, amended: with only the two required inputs set, the argument list  *)
(* is the stated list with -e 0.01 before --stringency (error_rate        *)
(* defaults to 0.01) and --fastqc at the end (fastqc defaults to True).   *)
C1_DefaultArgumentList ==
    (Built /\ OnlyRequiredSet(params)) =>
        _cmd = << "./TrimGalore-0.6.10/trim_galore",
                  params.input_forward, params.input_reverse,
                  "--paired", "--output_dir", "trim_galore_out",
                  "--dont_gzip", "--retain_unpaired",
                  "--quality", "20", "--phred33",
                  "--length", "20", "--length_1", "35", "--length_2", "35",
                  "-e", "0.01",
                  "--stringency", "1",
                  "--fastqc" >>

C1_Witness ==
    /\ pc = "Done"
    /\ OnlyRequiredSet(params)
    /\ Len(_cmd) = 22

(* ---------------------------------------------------------------------- *)
(* C2                                                                      *)
(* ---------------------------------------------------------------------- *)

GzipTokens == {"--gzip", "--dont_gzip"}

ExactlyOneGzipToken ==
    /\ Count(_cmd, "--gzip") + Count(_cmd, "--dont_gzip") = 1
    /\ params.gzip_output_files => Count(_cmd, "--gzip") = 1
    /\ ~params.gzip_output_files => Count(_cmd, "--dont_gzip") = 1

(* C2, as stated: for every parameter set the argument list holds exactly *)
(* one token of {--gzip, --dont_gzip}: --gzip when gzip_output_files is   *)
(* true, --dont_gzip when it is false.                                    *)
C2_AsStated == Built => ExactlyOneGzipToken

(* C2, amended: the same, for every parameter set whose free-text values  *)
(* (the input paths, base_out, adapter, adapter2) are not themselves      *)
(* --gzip or --dont_gzip.                                                 *)
C2_GzipExclusive ==
    (Built /\ FreeText(params) \cap GzipTokens = {}) => ExactlyOneGzipToken

C2_Witness ==
    /\ Built
    /\ params.gzip_output_files
    /\ params.base_out = Some("sample")
    /\ Count(_cmd, "--gzip") = 1

(* ---------------------------------------------------------------------- *)
(* C3                                                                      *)
(* ---------------------------------------------------------------------- *)

FamilyTokens == {"--illumina", "--stranded_illumina", "--nextera", "--small_rna"}

(* the literal token of a member other than auto *)
OwnToken(member) == "--" \o member

AdapterFamilyTokens ==
    IF params.adapter_sequence = "auto"
    THEN \A t \in FamilyTokens \cup {"auto"} : Count(_cmd, t) = 0
    ELSE /\ Count(_cmd, OwnToken(params.adapter_sequence)) = 1
         /\ \A t \in FamilyTokens \ {OwnToken(params.adapter_sequence)} :
                Count(_cmd, t) = 0

(* C3, as stated: when adapter_sequence is auto, none of --illumina,      *)
(* --stranded_illumina, --nextera, --small_rna, nor the literal auto, is  *)
(* anywhere in the argument list; for another member its own token is     *)
(* there exactly once and none of the other three.                        *)
C3_AsStated == Built => AdapterFamilyTokens

(* C3, amended: the same, for every parameter set whose free-text values  *)
(* (the input paths, base_out, adapter, adapter2) are not themselves one  *)
(* of the four family tokens or the literal auto.                         *)
C3_AdapterFamily ==
    (Built /\ FreeText(params) \cap (FamilyTokens \cup {"auto"}) = {})
        => AdapterFamilyTokens

C3_Witness ==
    /\ Built
    /\ params.adapter_sequence = "nextera"
    /\ params.adapter = Some("AGATCGGAAGAGC")
    /\ Count(_cmd, "--nextera") = 1

C3_WitnessAuto ==
    /\ Built
    /\ params.adapter_sequence = "auto"
    /\ params.adapter = Some("AGATCGGAAGAGC")

(* ---------------------------------------------------------------------- *)
(* C4                                                                      *)
(* ---------------------------------------------------------------------- *)

(* C4, as stated: whenever max_n is not None, a value of zero included,   *)
(* the argument list holds --max_n followed by the value's string form;   *)
(* the pair is left out only when max_n is None.                          *)
C4_AsStated ==
    Built =>
        IF params.max_n # None
        THEN HasPair(_cmd, "--max_n", FloatStr(params.max_n[1]))
        ELSE Count(_cmd, "--max_n") = 0

(* ---------------------------------------------------------------------- *)
(* C5                                                                      *)
(* ---------------------------------------------------------------------- *)

(* what C5 says of one Optional[int] parameter with value v and flag      *)
(* flag; absent is the argument list built with the parameter None        *)
ZeroSuppressed(v, flag, absent) ==
    /\ v = Some(0) => (Count(_cmd, flag) = 0 /\ _cmd = absent)
    /\ (v # None /\ v[1] # 0) =>
           (Count(_cmd, flag) = 1 /\ HasPair(_cmd, flag, IntStr(v[1])))

(* what C5 says of error_rate, which is a float and has no None: at 0 the *)
(* list has no -e, and is the list of a non-zero rate less its -e pair    *)
ErrorRateZeroSuppressed ==
    /\ params.error_rate = 0 =>
           /\ Count(_cmd, "-e") = 0
           /\ \A e \in {1, 5} :
                  _cmd = DropPair(BuildCmd([params EXCEPT !.error_rate = e]), "-e")
    /\ params.error_rate # 0 =>
           /\ Count(_cmd, "-e") = 1
           /\ HasPair(_cmd, "-e", FloatStr(params.error_rate))

ZeroSuppressedAll ==
    /\ ZeroSuppressed(params.max_length, "--max_length",
                      BuildCmd([params EXCEPT !.max_length = None]))
    /\ ZeroSuppressed(params.consider_already_trimmed, "--consider_already_trimmed",
                      BuildCmd([params EXCEPT !.consider_already_trimmed = None]))
    /\ ZeroSuppressed(params.hardtrim5, "--hardtrim5",
                      BuildCmd([params EXCEPT !.hardtrim5 = None]))
    /\ ZeroSuppressed(params.hardtrim3, "--hardtrim3",
                      BuildCmd([params EXCEPT !.hardtrim3 = None]))
    /\ ZeroSuppressed(params.clip_R1, "--clip_R1",
                      BuildCmd([params EXCEPT !.clip_R1 = None]))
    /\ ZeroSuppressed(params.clip_R2, "--clip_R2",
                      BuildCmd([params EXCEPT !.clip_R2 = None]))
    /\ ZeroSuppressed(params.three_prime_clip_R1, "--three_prime_clip_R1",
                      BuildCmd([params EXCEPT !.three_prime_clip_R1 = None]))
    /\ ZeroSuppressed(params.three_prime_clip_R2, "--three_prime_clip_R2",
                      BuildCmd([params EXCEPT !.three_prime_clip_R2 = None]))
    /\ ErrorRateZeroSuppressed

NumericFlags ==
    {"--max_length", "--consider_already_trimmed", "--hardtrim5", "--hardtrim3",
     "--clip_R1", "--clip_R2", "--three_prime_clip_R1", "--three_prime_clip_R2", "-e"}

(* C5, as stated: for max_length, consider_already_trimmed, hardtrim5,    *)
(* hardtrim3, clip_R1, clip_R2, three_prime_clip_R1, three_prime_clip_R2  *)
(* and error_rate, a value of 0 leaves the flag and its value out (the    *)
(* list is the one built with the parameter absent) and a non-zero value  *)
(* puts the flag in exactly once, immediately followed by the value's     *)
(* string form.                                                           *)
C5_AsStated == Built => ZeroSuppressedAll

(* C5, amended: the same, for every parameter set whose free-text values  *)
(* (the input paths, base_out, adapter, adapter2) are not themselves one  *)
(* of the nine flags.                                                     *)
C5_ZeroSuppressed ==
    (Built /\ FreeText(params) \cap NumericFlags = {}) => ZeroSuppressedAll

C5_Witness ==
    /\ Built
    /\ params.clip_R1 = Some(0)
    /\ params.hardtrim5 = Some(12)
    /\ HasPair(_cmd, "--hardtrim5", "12")
    /\ Count(_cmd, "--clip_R1") = 0

C5_WitnessErrorRate ==
    /\ Built
    /\ params.error_rate = 0
    /\ params.three_prime_clip_R2 = Some(-1)
    /\ HasPair(_cmd, "--three_prime_clip_R2", "-1")

(* ---------------------------------------------------------------------- *)
(* C6                                                                      *)
(* ---------------------------------------------------------------------- *)

(* C6: with an output_directory the destination is its remote_source less *)
(* one trailing "/" when it ends in "/", and the remote_source itself     *)
(* otherwise; without one it is the fixed default destination.            *)
C6_DestinationResolution ==
    pc = "Done" =>
        LET od == params.output_directory
            loc == latch_out_location[1]
        IN  /\ od = None => loc = "latch:///Trim Galore Output/"
            /\ (od # None /\ EndsWithSlash(od[1])) => loc \o "/" = od[1]
            /\ (od # None /\ ~EndsWithSlash(od[1])) => loc = od[1]
            /\ od = Some("s3://bucket/path/") => loc = "s3://bucket/path"
            /\ od = Some("s3://bucket/path") => loc = "s3://bucket/path"
            /\ result[1].remote_path = loc

C6_Witness ==
    /\ pc = "Done"
    /\ params.output_directory = Some("s3://bucket/path/")
    /\ latch_out_location = Some("s3://bucket/path")

C6_WitnessDefault ==
    /\ pc = "Done"
    /\ params.output_directory = None
    /\ params.base_out # None

(* ---------------------------------------------------------------------- *)
(* C7                                                                      *)
(* ---------------------------------------------------------------------- *)

(* C7, as stated: the destination of every LatchDir trim_reads_task       *)
(* returns, with or without an output_directory, does not end in "/".     *)
C7_AsStated ==
    pc = "Done" => ~EndsWithSlash(result[1].remote_path)

(* ---------------------------------------------------------------------- *)
(* C8                                                                      *)
(* ---------------------------------------------------------------------- *)

(* C8: the exit status is not inspected: once the child has returned,     *)
(* with any status, the task is never in an error outcome, it goes on to  *)
(* resolve the destination, and at Done it has returned the LatchDir of   *)
(* trim_galore_out and the resolved destination, whatever the status.     *)
C8_ExitStatusIgnored ==
    /\ returncode # None => pc \in {"ResolvingDestination", "Done"}
    /\ pc = "Raised" => returncode = None
    /\ pc = "ResolvingDestination" => ENABLED ResolveDestination
    /\ pc = "Done" =>
           /\ returncode # None
           /\ result = Some([local_path |-> "trim_galore_out",
                             remote_path |-> ResolveLocation(params.output_directory)])

C8_Witness ==
    /\ pc = "Done"
    /\ returncode # None
    /\ returncode[1] # 0
    /\ result # None

(* ---------------------------------------------------------------------- *)
(* C9                                                                      *)
(* ---------------------------------------------------------------------- *)

(* a slot of the canonical sequence: the tokens that may fill it and, for *)
(* a flag that takes a value, the value that must follow                   *)
Flag(tokens) == [tokens |-> tokens, value |-> None]

FlagValue(token, value) == [tokens |-> {token}, value |-> Some(value)]

(* the string form of an Optional value, "" when it is None *)
OptStr(o) == IF o = None THEN "" ELSE o[1]

OptIntStr(o) == IF o = None THEN "" ELSE IntStr(o[1])

OptFloatStr(o) == IF o = None THEN "" ELSE FloatStr(o[1])

(* the canonical sequence after the tool and the two paths *)
CanonicalSequence(p) ==
    << Flag({"--paired"}),
       FlagValue("--output_dir", "trim_galore_out"),
       FlagValue("--basename", OptStr(p.base_out)),
       Flag({"--gzip", "--dont_gzip"}),
       Flag({"--retain_unpaired"}),
       FlagValue("--quality", IntStr(p.quality)),
       Flag({"--phred33", "--phred64"}),
       FlagValue("--length", IntStr(p.length)),
       FlagValue("--length_1", IntStr(p.length_1)),
       FlagValue("--length_2", IntStr(p.length_2)),
       FlagValue("--max_length", OptIntStr(p.max_length)),
       FlagValue("--max_n", OptFloatStr(p.max_n)),
       Flag({"--trim-n"}),
       Flag(FamilyTokens),
       FlagValue("-e", FloatStr(p.error_rate)),
       FlagValue("--stringency", IntStr(p.stringency)),
       FlagValue("--adapter", OptStr(p.adapter)),
       FlagValue("--adapter2", OptStr(p.adapter2)),
       FlagValue("--consider_already_trimmed", OptIntStr(p.consider_already_trimmed)),
       Flag({"--fastqc"}),
       FlagValue("--fastqc_args", "\"" \o OptStr(p.fastqc_args) \o "\""),
       Flag({"--no_report_file"}),
       FlagValue("--hardtrim5", OptIntStr(p.hardtrim5)),
       FlagValue("--hardtrim3", OptIntStr(p.hardtrim3)),
       FlagValue("--clip_R1", OptIntStr(p.clip_R1)),
       FlagValue("--clip_R2", OptIntStr(p.clip_R2)),
       Flag({"--polyA"}),
       Flag({"--implicon"}),
       FlagValue("--three_prime_clip_R1", OptIntStr(p.three_prime_clip_R1)),
       FlagValue("--three_prime_clip_R2", OptIntStr(p.three_prime_clip_R2)) >>

(* s from position i on is a subsequence of canon from slot k on, every   *)
(* value-taking flag immediately followed by its value                    *)
RECURSIVE InOrder(_, _, _, _)
InOrder(s, i, canon, k) ==
    IF i > Len(s) THEN TRUE
    ELSE \E j \in k .. Len(canon) :
            /\ s[i] \in canon[j].tokens
            /\ IF canon[j].value = None
               THEN InOrder(s, i + 1, canon, j + 1)
               ELSE /\ i + 1 <= Len(s)
                    /\ s[i + 1] = canon[j].value[1]
                    /\ InOrder(s, i + 2, canon, j + 1)

(* C9: the argument list is the tool path, the forward path, the reverse  *)
(* path and then a subsequence of the canonical sequence --paired,        *)
(* --output_dir, --basename, gzip/dont_gzip, --retain_unpaired,           *)
(* --quality, encoding, --length, --length_1, --length_2, --max_length,   *)
(* --max_n, --trim-n, adapter family, -e, --stringency, --adapter,        *)
(* --adapter2, --consider_already_trimmed, --fastqc, --fastqc_args,       *)
(* --no_report_file, --hardtrim5, --hardtrim3, --clip_R1, --clip_R2,      *)
(* --polyA, --implicon, --three_prime_clip_R1, --three_prime_clip_R2,     *)
(* each value-taking flag immediately followed by its value.              *)
C9_CanonicalOrder ==
    Built =>
        /\ Len(_cmd) >= 3
        /\ _cmd[1] = "./TrimGalore-0.6.10/trim_galore"
        /\ _cmd[2] = params.input_forward
        /\ _cmd[3] = params.input_reverse
        /\ InOrder(_cmd, 4, CanonicalSequence(params), 1)

C9_Witness ==
    /\ Built
    /\ params.polyA
    /\ params.hardtrim3 = Some(12)
    /\ HasPair(_cmd, "--hardtrim3", "12")
    /\ Count(_cmd, "--polyA") = 1

C9_WitnessValues ==
    /\ Built
    /\ params.fastqc_args = Some("--nogroup")
    /\ params.max_n = Some(50)
    /\ HasPair(_cmd, "--max_n", "0.5")
    /\ HasPair(_cmd, "--fastqc_args", "\"--nogroup\"")

(* ---------------------------------------------------------------------- *)
(* C10                                                                     *)
(* ---------------------------------------------------------------------- *)

(* the parameter set that differs from p in gzip_output_files only *)
GzipFlipped(p) == [p EXCEPT !.gzip_output_files = ~p.gzip_output_files]

(* C10: two parameter sets that differ only in gzip_output_files give     *)
(* argument lists of the same length that are equal at every position but *)
(* one, which holds --dont_gzip for false and --gzip for true; and the    *)
(* same resolved destination.                                             *)
C10_GzipOnlyDifference ==
    /\ Built =>
           LET other == BuildCmd(GzipFlipped(params))
               off == IF params.gzip_output_files THEN other ELSE _cmd
               on == IF params.gzip_output_files THEN _cmd ELSE other
               differ == {i \in DOMAIN off : off[i] # on[i]}
           IN  /\ Len(off) = Len(on)
               /\ Cardinality(differ) = 1
               /\ \A i \in differ : off[i] = "--dont_gzip" /\ on[i] = "--gzip"
    /\ pc = "Done" =>
           latch_out_location =
               Some(ResolveLocation(GzipFlipped(params).output_directory))

C10_Witness ==
    /\ pc = "Done"
    /\ params.gzip_output_files
    /\ params.base_out = Some("--gzip")
    /\ Count(_cmd, "--gzip") = 2

C10_WitnessOff ==
    /\ pc = "Done"
    /\ ~params.gzip_output_files
    /\ params.output_directory = Some("s3://bucket/path/")

(* ---------------------------------------------------------------------- *)
(* C11                                                                     *)
(* ---------------------------------------------------------------------- *)

(* the phase that follows a phase of a run *)
NextPhase(phase) ==
    CASE phase = "Idle" -> "BuildingArguments"
      [] phase = "BuildingArguments" -> "ProcessRunning"
      [] phase = "ProcessRunning" -> "ResolvingDestination"
      [] phase = "ResolvingDestination" -> "Done"
      [] OTHER -> "none"

(* C11: a run moves through Idle, BuildingArguments, ProcessRunning,      *)
(* ResolvingDestination, Done in this order, a step that changes the      *)
(* phase going to the next one (or leaving the run with the exception of  *)
(* a failed launch), so no phase is skipped or revisited; the child       *)
(* process is launched at most once and only with the complete argument   *)
(* list; the LatchDir is constructed only after the child has returned    *)
(* and is not changed afterwards.                                         *)
C11_PhaseOrder ==
    [][ /\ pc' # pc =>
               \/ pc' = NextPhase(pc)
               \/ pc = "BuildingArguments" /\ pc' = "Raised" /\ launches' # launches
        /\ pc' = "ProcessRunning" =>
               (pc = "BuildingArguments" \/ pc = "ProcessRunning")
        /\ launches' # launches =>
               /\ launches = 0
               /\ launches' = 1
               /\ _cmd = BuildCmd(params)
               /\ _cmd' = _cmd
        /\ result' # result =>
               /\ result = None
               /\ returncode # None
               /\ launches = 1
               /\ pc' = "Done"
        /\ result # None => result' = result
      ]_vars

C11_Witness ==
    /\ pc = "Done"
    /\ launches = 1
    /\ returncode = Some(1)
    /\ result # None
    /\ _cmd = BuildCmd(params)

(* ---------------------------------------------------------------------- *)
(* C12                                                                     *)
(* ---------------------------------------------------------------------- *)

(* the one launch was made and did not start a child process: nothing is  *)
(* running and nothing has returned                                       *)
LaunchFailed == launches > 0 /\ pc # "ProcessRunning" /\ returncode = None

(* C12: when the launch itself raises, the run is in the failure outcome  *)
(* and stays there: the destination is not resolved, no LatchDir is       *)
(* constructed, the launch was made once and no further step is taken.    *)
C12_LaunchFailurePropagates ==
    LaunchFailed =>
        /\ pc = "Raised"
        /\ latch_out_location = None
        /\ result = None
        /\ launches = 1
        /\ ~ENABLED Next

C12_Witness ==
    /\ pc = "Raised"
    /\ launches = 1
    /\ _cmd = BuildCmd(params)
    /\ params.output_directory = Some("s3://bucket/path/")

====
